---- MODULE Spec2Model ----
(***************************************************************************)
(* Game-Portal, script.js: the catalog loader, the card renderer and the   *)
(* tag filter, as a state machine over the page's observable state.        *)
(***************************************************************************)
EXTENDS Integers, Sequences, FiniteSets, TLC

\* ------------------------------------------------------------------ bounds
MaxCatalog == 2     \* longest catalog the data source returns
MaxClicks == 3      \* click events dispatched in one session
MaxFailures == 2    \* error events dispatched on one image element
MaxRenders == 3     \* direct renderGameList calls in the renderer-only spec

\* ------------------------------------------------------------ data source
NoThumb == ""

GameRecord(tags, thumbnail) ==
    [isNull |-> FALSE, hasTags |-> TRUE, tags |-> tags, thumbnail |-> thumbnail]

\* a record of the JSON document with no "tags" key
NoTagsRecord ==
    [isNull |-> FALSE, hasTags |-> FALSE, tags |-> <<>>, thumbnail |-> "a.png"]

\* a JSON null in the array
NullRecord ==
    [isNull |-> TRUE, hasTags |-> FALSE, tags |-> <<>>, thumbnail |-> NoThumb]

Records ==
    { GameRecord(<<"Rpg", "Arcade">>, "a.png"),
      GameRecord(<<"rpg">>, NoThumb),
      GameRecord(<<"All">>, "b.png"),
      GameRecord(<<>>, NoThumb),
      NoTagsRecord,
      NullRecord }

SeqsUpTo(S, n) == UNION { [1..k -> S] : k \in 0..n }

Catalogs == SeqsUpTo(Records, MaxCatalog)

\* what fetch() settles with: a rejection, or a response with a status
Responses ==
    { [settled |-> TRUE, rejected |-> TRUE, status |-> 0],
      [settled |-> TRUE, rejected |-> FALSE, status |-> 200],
      [settled |-> TRUE, rejected |-> FALSE, status |-> 404],
      [settled |-> TRUE, rejected |-> FALSE, status |-> 500] }

\* what response.json() settles with: a parse failure, or the parsed array
Bodies ==
    { [settled |-> TRUE, malformed |-> TRUE, value |-> <<>>] } \cup
    { [settled |-> TRUE, malformed |-> FALSE, value |-> c] : c \in Catalogs }

\* String.prototype.toLowerCase on the tag alphabet
toLowerCase(s) ==
    CASE s = "Rpg" -> "rpg"
      [] s = "Arcade" -> "arcade"
      [] s = "All" -> "all"
      [] OTHER -> s

VARIABLES
    pc,            \* position of loadGameCatalog: init, fetching, parsing, done
    allGamesData,  \* the module-level catalog
    display,       \* gameListContainer: [msg, cards]
    buttons,       \* the .tag-filter elements of the document, in order
    active,        \* indices of the buttons carrying class "active"
    listener,      \* click listener registered on tagFilterContainer
    reads,         \* fetch() calls issued
    response,      \* what fetch() settled with
    body,          \* what response.json() settled with
    writes,        \* assignments to allGamesData
    renderCalls,   \* renderGameList invocations
    initCalls,     \* populateTagFilters invocations
    clicks,        \* click events dispatched
    lastClick,     \* the last click event: its target, and whether a listener ran
    activations,   \* the buttons the handler has activated, oldest first
    lastRender     \* the last renderGameList call: its argument and what it found

vars == <<pc, allGamesData, display, buttons, active, listener, reads, response,
          body, writes, renderCalls, initCalls, clicks, lastClick, activations,
          lastRender>>

\* ---------------------------------------------------------------- renderer
placeholderSvg == "data:image/svg+xml"

\* img.onerror of the card's image: swaps are counted on the element
onerror_noReset(img) ==
    IF img.onerror
    THEN [img EXCEPT !.src = placeholderSvg, !.swaps = @ + 1, !.failures = @ + 1]
    ELSE [img EXCEPT !.failures = @ + 1]

onerror(img) ==
    IF img.onerror
    THEN [img EXCEPT !.onerror = FALSE, !.src = placeholderSvg,
                     !.swaps = @ + 1, !.failures = @ + 1]
    ELSE [img EXCEPT !.failures = @ + 1]

\* one card of games.forEach
Card(game) ==
    [game |-> game,
     dataTags |-> IF game.hasTags THEN game.tags ELSE <<>>,
     img |-> [src |-> IF game.thumbnail # NoThumb THEN game.thumbnail ELSE placeholderSvg,
              onerror |-> TRUE, swaps |-> 0, failures |-> 0]]

clearContent_keep(old) == [msg |-> "none", cards |-> old.cards]

\* gameListContainer.innerHTML = ''
clearContent(old) == [msg |-> "none", cards |-> <<>>]

\* index of the first null element, 0 when there is none: game.tags throws there
RECURSIVE FirstNull(_, _)
FirstNull(games, i) ==
    IF i > Len(games) THEN 0
    ELSE IF games[i].isNull THEN i
    ELSE FirstNull(games, i + 1)

renderGameList(games, old) ==
    LET cleared == clearContent(old)
        k == FirstNull(games, 1)
        n == IF k = 0 THEN Len(games) ELSE k - 1
    IN  IF Len(games) = 0
        THEN [fault |-> FALSE, display |-> [msg |-> "noresults", cards |-> <<>>]]
        ELSE [fault |-> k # 0,
              display |-> [cleared EXCEPT
                             !.cards = @ \o [i \in 1..n |-> Card(games[i])]]]

\* ------------------------------------------------------------ filter setup
RECURSIVE AddAll(_, _)
\* uniqueTags.add for each tag of one record: a Set keeps insertion order
AddAll(unique, tags) ==
    IF tags = <<>> THEN unique
    ELSE AddAll(IF \E i \in 1..Len(unique) : unique[i] = Head(tags)
                THEN unique ELSE Append(unique, Head(tags)),
                Tail(tags))

RECURSIVE UniqueTags(_, _)
UniqueTags(games, unique) ==
    IF games = <<>> THEN unique
    ELSE UniqueTags(Tail(games), AddAll(unique, Head(games).tags))

populateTagFilters_tolerant(games) ==
    LET u == UniqueTags(games, <<>>)
    IN  [fault |-> FALSE,
         buttons |-> [i \in 1..Len(u) |-> [label |-> u[i], key |-> toLowerCase(u[i])]],
         listener |-> TRUE]

populateTagFilters_listenFirst(games) ==
    LET u == UniqueTags(games, <<>>)
    IN  IF \E i \in 1..Len(games) : ~games[i].hasTags
        THEN [fault |-> TRUE, buttons |-> <<>>, listener |-> TRUE]
        ELSE [fault |-> FALSE,
              buttons |-> [i \in 1..Len(u) |->
                             [label |-> u[i], key |-> toLowerCase(u[i])]],
              listener |-> TRUE]

\* game.tags.forEach throws on the first record without tags, before any
\* button is created and before addEventListener
populateTagFilters(games) ==
    LET u == UniqueTags(games, <<>>)
    IN  IF \E i \in 1..Len(games) : ~games[i].hasTags
        THEN [fault |-> TRUE, buttons |-> <<>>, listener |-> FALSE]
        ELSE [fault |-> FALSE,
              buttons |-> [i \in 1..Len(u) |->
                             [label |-> u[i], key |-> toLowerCase(u[i])]],
              listener |-> TRUE]

\* ------------------------------------------------------------------ markup
\* the page the script runs in: a loading indicator in the list container and
\* the "all" control, none marked active
MarkupDisplay == [msg |-> "loading", cards |-> <<>>]
MarkupButtons == << [label |-> "All Games", key |-> "all"] >>

NoResponse == [settled |-> FALSE, rejected |-> FALSE, status |-> 0]
NoBody == [settled |-> FALSE, malformed |-> FALSE, value |-> <<>>]
NoClick == [target |-> -1, dispatched |-> FALSE]
NoRender == [called |-> FALSE, games |-> <<>>, fault |-> FALSE, before |-> 0]

Init ==
    /\ pc = "init"
    /\ allGamesData = <<>>
    /\ display = MarkupDisplay
    /\ buttons = MarkupButtons
    /\ active = {}
    /\ listener = FALSE
    /\ reads = 0
    /\ response = NoResponse
    /\ body = NoBody
    /\ writes = 0
    /\ renderCalls = 0
    /\ initCalls = 0
    /\ clicks = 0
    /\ lastClick = NoClick
    /\ activations = <<>>
    /\ lastRender = NoRender

\* ------------------------------------------------------------------ loader
catchError_append(old) == [msg |-> "error", cards |-> old.cards]

\* the catch block: gameListContainer.innerHTML = `<p style="color:red;">...`
catchError(old) == [msg |-> "error", cards |-> <<>>]

\* document.addEventListener('DOMContentLoaded', loadGameCatalog), up to the
\* first await: fetch(CATALOG_FILE) is issued
DOMContentLoaded ==
    /\ pc = "init"
    /\ pc' = "fetching"
    /\ reads' = reads + 1
    /\ UNCHANGED <<allGamesData, display, buttons, active, listener, response, body,
                   writes, renderCalls, initCalls, clicks, lastClick, activations,
                   lastRender>>

FetchSettled_noStatusCheck(resp) ==
    /\ pc = "fetching"
    /\ response' = resp
    /\ IF resp.rejected
       THEN /\ pc' = "done"
            /\ display' = catchError(display)
       ELSE /\ pc' = "parsing"
            /\ UNCHANGED display
    /\ UNCHANGED <<allGamesData, buttons, active, listener, reads, body, writes,
                   renderCalls, initCalls, clicks, lastClick, activations, lastRender>>

\* await fetch(...) settles; response.ok is status in 200..299
FetchSettled(resp) ==
    /\ pc = "fetching"
    /\ response' = resp
    /\ IF resp.rejected \/ ~(resp.status >= 200 /\ resp.status <= 299)
       THEN /\ pc' = "done"
            /\ display' = catchError(display)
       ELSE /\ pc' = "parsing"
            /\ UNCHANGED display
    /\ UNCHANGED <<allGamesData, buttons, active, listener, reads, body, writes,
                   renderCalls, initCalls, clicks, lastClick, activations, lastRender>>

\* await response.json() settles, and the rest of the try block runs
JsonSettled(b) ==
    /\ pc = "parsing"
    /\ pc' = "done"
    /\ body' = b
    /\ IF b.malformed
       THEN /\ display' = catchError(display)
            /\ UNCHANGED <<allGamesData, buttons, listener, writes, renderCalls,
                           initCalls, lastRender>>
       ELSE LET games == b.value
                \* loadingMessage.remove()
                removed == IF display.msg = "loading"
                           THEN [display EXCEPT !.msg = "none"] ELSE display
                r == renderGameList(games, removed)
                p == populateTagFilters(games)
            IN  /\ allGamesData' = games
                /\ writes' = writes + 1
                /\ renderCalls' = renderCalls + 1
                /\ lastRender' = [called |-> TRUE, games |-> games, fault |-> r.fault,
                                  before |-> Len(removed.cards)]
                /\ IF r.fault
                   THEN /\ display' = catchError(r.display)
                        /\ UNCHANGED <<buttons, listener, initCalls>>
                   ELSE /\ initCalls' = initCalls + 1
                        /\ buttons' = buttons \o p.buttons
                        /\ listener' = (listener \/ p.listener)
                        /\ display' = IF p.fault THEN catchError(r.display)
                                      ELSE r.display
    /\ UNCHANGED <<active, reads, response, clicks, lastClick, activations>>

\* ------------------------------------------------------------------ filter
activateOnly_keepOthers(act, target) == act \cup {target}

\* querySelectorAll('.tag-filter').forEach(remove 'active'); clicked.add('active')
activateOnly(act, target) == {target}

filteredGames_noAll(selectedTag) ==
    IF \E i \in 1..Len(allGamesData) : ~allGamesData[i].hasTags
    THEN [fault |-> TRUE, games |-> <<>>]
    ELSE [fault |-> FALSE,
          games |-> SelectSeq(allGamesData,
                       LAMBDA game : \E j \in 1..Len(game.tags) :
                                        toLowerCase(game.tags[j]) = selectedTag)]

\* the filter logic: 'all' is the catalog itself, else Array.filter; game.tags.map
\* throws on a record without tags
filteredGames(selectedTag) ==
    IF selectedTag = "all"
    THEN [fault |-> FALSE, games |-> allGamesData]
    ELSE IF \E i \in 1..Len(allGamesData) : ~allGamesData[i].hasTags
    THEN [fault |-> TRUE, games |-> <<>>]
    ELSE [fault |-> FALSE,
          games |-> SelectSeq(allGamesData,
                       LAMBDA game : \E j \in 1..Len(game.tags) :
                                        toLowerCase(game.tags[j]) = selectedTag)]

handleTagFilterClick_narrowing(target) ==
    IF target = 0
    THEN UNCHANGED <<active, display, renderCalls, lastRender, allGamesData>>
    ELSE LET f == filteredGames(buttons[target].key)
             r == renderGameList(f.games, display)
         IN  /\ active' = activateOnly(active, target)
             /\ allGamesData' = f.games
             /\ IF f.fault
                THEN UNCHANGED <<display, renderCalls, lastRender>>
                ELSE /\ display' = r.display
                     /\ renderCalls' = renderCalls + 1
                     /\ lastRender' = [called |-> TRUE, games |-> f.games,
                                       fault |-> r.fault, before |-> Len(display.cards)]

\* target 0 is an element of the container without class 'tag-filter'
handleTagFilterClick(target) ==
    IF target = 0
    THEN UNCHANGED <<active, display, renderCalls, lastRender, allGamesData>>
    ELSE LET f == filteredGames(buttons[target].key)
             r == renderGameList(f.games, display)
         IN  /\ active' = activateOnly(active, target)
             /\ UNCHANGED allGamesData
             /\ IF f.fault
                THEN UNCHANGED <<display, renderCalls, lastRender>>
                ELSE /\ display' = r.display
                     /\ renderCalls' = renderCalls + 1
                     /\ lastRender' = [called |-> TRUE, games |-> f.games,
                                       fault |-> r.fault, before |-> Len(display.cards)]

\* the user clicks inside tagFilterContainer; the handler runs when registered
Click(target) ==
    /\ clicks < MaxClicks
    /\ clicks' = clicks + 1
    /\ lastClick' = [target |-> target, dispatched |-> listener]
    /\ activations' = IF listener /\ target # 0
                      THEN Append(activations, target) ELSE activations
    /\ IF listener
       THEN handleTagFilterClick(target)
       ELSE UNCHANGED <<active, display, renderCalls, lastRender, allGamesData>>
    /\ UNCHANGED <<pc, buttons, listener, reads, response, body, writes, initCalls>>

\* an error event on the image of the i-th displayed card
ImageError(i) ==
    /\ display.cards[i].img.failures < MaxFailures
    /\ display' = [display EXCEPT !.cards[i].img = onerror(@)]
    /\ UNCHANGED <<pc, allGamesData, buttons, active, listener, reads, response, body,
                   writes, renderCalls, initCalls, clicks, lastClick, activations,
                   lastRender>>

Next ==
    \/ DOMContentLoaded
    \/ \E resp \in Responses : FetchSettled(resp)
    \/ \E b \in Bodies : JsonSettled(b)
    \/ \E target \in 0..Len(buttons) : Click(target)
    \/ \E i \in 1..Len(display.cards) : ImageError(i)

Spec == Init /\ [][Next]_vars

\* -------------------------------------------- the renderer on its own inputs
\* renderGameList called directly with any sequence of records
RenderCall(games) ==
    /\ renderCalls < MaxRenders
    /\ LET r == renderGameList(games, display)
       IN  /\ display' = r.display
           /\ renderCalls' = renderCalls + 1
           /\ lastRender' = [called |-> TRUE, games |-> games, fault |-> r.fault,
                             before |-> Len(display.cards)]
    /\ UNCHANGED <<pc, allGamesData, buttons, active, listener, reads, response, body,
                   writes, initCalls, clicks, lastClick, activations>>

NextRender == \E games \in Catalogs : RenderCall(games)

SpecRender == Init /\ [][NextRender]_vars

\* ------------------------------------------------------------- observations
DisplayedGames == [i \in 1..Len(display.cards) |-> display.cards[i].game]

ErrorShown == display.msg = "error" /\ display.cards = <<>>

ParsedOk == body.settled /\ ~body.malformed

HasNull(games) == \E i \in 1..Len(games) : games[i].isNull

LacksTags(games) == \E i \in 1..Len(games) : ~games[i].isNull /\ ~games[i].hasTags

\* the records of games carrying tag t, compared in lower case
Tagged(games, t) ==
    SelectSeq(games, LAMBDA g : toLowerCase(t) \in
                         { toLowerCase(g.tags[j]) : j \in 1..Len(g.tags) })

LastActivated == activations[Len(activations)]

TypeOK ==
    /\ pc \in {"init", "fetching", "parsing", "done"}
    /\ allGamesData \in Catalogs
    /\ display.msg \in {"loading", "none", "noresults", "error"}
    /\ active \subseteq 1..Len(buttons)
    /\ listener \in BOOLEAN

\* ------------------------------------------------------------------ claims

\* C1: after a handled activation of the control created for a catalog tag t,
\* the display holds exactly the catalog records whose lower-cased tags contain
\* t lower-cased, in catalog order. Controls after the markup's are the created ones.
C1_TagFilterShowsTagged ==
    (activations # <<>> /\ LastActivated > Len(MarkupButtons))
        => DisplayedGames = Tagged(allGamesData, buttons[LastActivated].label)

\* C2: activating a control whose key is "all" displays the whole catalog, one
\* card per record in catalog order, whatever was displayed before.
C2_AllShowsCatalog ==
    (activations # <<>> /\ buttons[LastActivated].key = "all")
        => /\ DisplayedGames = allGamesData
           /\ Len(display.cards) = Len(allGamesData)
           /\ display.msg # "error"

C2_Witness ==
    /\ Len(activations) >= 2
    /\ buttons[LastActivated].key = "all"
    /\ buttons[activations[1]].key # "all"
    /\ lastRender.before < Len(display.cards)
    /\ Len(display.cards) = MaxCatalog

\* C3: at most one control is active; none before the first activation, and
\* afterwards exactly the control activated last.
C3_OneActive ==
    /\ Cardinality(active) <= 1
    /\ active = IF activations = <<>> THEN {} ELSE {LastActivated}

C3_Witness ==
    /\ Len(activations) >= 2
    /\ activations[1] # LastActivated
    /\ active = {LastActivated}

\* C4: a fetch that resolves with a non-success status ends with the error
\* message alone, no renderGameList or populateTagFilters call, and
\* allGamesData still its initial empty array.
C4_BadStatus ==
    (response.settled /\ ~response.rejected
       /\ ~(response.status >= 200 /\ response.status <= 299))
        => /\ pc = "done"
           /\ ErrorShown
           /\ renderCalls = 0
           /\ initCalls = 0
           /\ writes = 0
           /\ allGamesData = <<>>
           /\ ~body.settled

C4_Witness ==
    /\ response.settled /\ response.status = 404
    /\ pc = "done"
    /\ ErrorShown

\* C5: when the loader has finished, one fetch was issued, and the display is
\* either the error message with no card or the rendering of the catalog with
\* no error message: never both, never neither.
C5_OneReadOneOutcome ==
    pc = "done" =>
        /\ reads = 1
        /\ display.msg # "loading"
        /\ ~(display.msg = "error" /\ display.cards # <<>>)
        /\ activations = <<>> =>
              (ErrorShown
                 \/ (/\ display.msg = (IF allGamesData = <<>> THEN "noresults" ELSE "none")
                     /\ ParsedOk
                     /\ DisplayedGames = allGamesData))

\* the renderer faulted on its second record, after appending a card
C5_Witness ==
    /\ pc = "done"
    /\ ParsedOk
    /\ Len(body.value) >= 2
    /\ ~body.value[1].isNull
    /\ HasNull(body.value)
    /\ ErrorShown

\* C6: after renderGameList(G) the display is one card per record of G in
\* order, or the "no results" message alone when G is empty, whatever was
\* displayed before the call.
C6_RenderReplaces ==
    (lastRender.called /\ ~lastRender.fault)
        => /\ DisplayedGames = lastRender.games
           /\ Len(display.cards) = Len(lastRender.games)
           /\ display.msg = (IF lastRender.games = <<>> THEN "noresults" ELSE "none")

C6_Witness ==
    /\ lastRender.called
    /\ lastRender.games = <<>>
    /\ lastRender.before > 0
    /\ display.msg = "noresults"
    /\ display.cards = <<>>

\* C7: an image element is swapped to the placeholder exactly once, at its
\* first load failure; later failures on it, the placeholder's included, swap
\* nothing.
C7_SwapOnce ==
    \A i \in 1..Len(display.cards) :
        LET img == display.cards[i].img
        IN  /\ img.swaps <= 1
            /\ img.swaps = (IF img.failures >= 1 THEN 1 ELSE 0)
            /\ img.failures >= 1 => (img.src = placeholderSvg /\ ~img.onerror)

C7_Witness ==
    /\ activations # <<>>
    /\ Len(display.cards) >= 2
    /\ display.cards[1].img.failures >= 2
    /\ display.cards[2].img.failures = 1
    /\ display.cards[1].img.swaps = 1

\* C8 as stated: a parsed catalog holding a record without tags leaves the
\* rendered cards on display and shows no load-error message.
C8_SetupFaultUnhandled ==
    (pc = "done" /\ ParsedOk /\ LacksTags(body.value) /\ ~HasNull(body.value))
        => /\ display.msg # "error"
           /\ DisplayedGames = allGamesData

\* C8 amended: the fault of the filter setup is caught by the loader's catch
\* block: the error message replaces the rendered cards, no control is created
\* and no handler is registered.
C8_SetupFaultCaught ==
    (pc = "done" /\ ParsedOk /\ LacksTags(body.value) /\ ~HasNull(body.value))
        => /\ ErrorShown
           /\ renderCalls = 1
           /\ initCalls = 1
           /\ buttons = MarkupButtons
           /\ ~listener
           /\ allGamesData = body.value

C8_Witness ==
    /\ pc = "done"
    /\ ParsedOk
    /\ LacksTags(body.value)
    /\ ~HasNull(body.value)
    /\ body.value[1].hasTags
    /\ ErrorShown

\* C9: allGamesData is assigned once, by the loader, with the parsed
\* sequence, and no render or activation changes it afterwards.
C9_CatalogWrittenOnce ==
    /\ writes = (IF ParsedOk THEN 1 ELSE 0)
    /\ allGamesData = (IF ParsedOk THEN body.value ELSE <<>>)

C9_Witness ==
    /\ Len(activations) >= 2
    /\ buttons[activations[1]].key = "all"
    /\ Len(display.cards) < Len(allGamesData)
    /\ allGamesData = body.value

\* C10: once the error message is shown the display never changes again, and
\* while no handler is registered no click activates a control or calls the
\* renderer; the handler is registered only by a load that ended without a fault.
C10_ErrorIsPermanent ==
    /\ [](display.msg = "error" => (pc = "done" /\ ~listener))
    /\ [](~listener => (active = {} /\ renderCalls <= 1))
    /\ [](listener => (pc = "done" /\ ParsedOk /\ display.msg # "error"))
    /\ [][display.msg = "error" => display' = display]_vars
    /\ [][(clicks' # clicks /\ ~listener)
             => UNCHANGED <<display, active, renderCalls, allGamesData>>]_vars

C10_Witness ==
    /\ display.msg = "error"
    /\ ParsedOk
    /\ lastClick.target >= 1
    /\ ~lastClick.dispatched
    /\ clicks >= 2
====
